---- MODULE Spec2Model ----
(***************************************************************************)
(* The indexed record store of voice100/data.py: IndexDataFileWriter       *)
(* (scoped write session over '<prefix>.idx' and '<prefix>.bin'), and the  *)
(* two readers IndexDataFileReaderV1 (eager) and IndexDataFileReader       *)
(* (memory mapped), driven side by side over the same prefix; several      *)
(* IndexDataFileReader objects open at once on one store (SpecPool); and   *)
(* IndexDataDataset, the view that zips parallel stores (SpecComposite).   *)
(*                                                                         *)
(* The index file is modelled entry by entry (one int64 per entry), the    *)
(* data file byte by byte.  An I/O call of the writer may raise; which     *)
(* call raises is chosen by the environment.                               *)
(***************************************************************************)
EXTENDS Integers, Sequences, FiniteSets, TLC

\* ------------------------------------------------------------------ bounds
\* write() calls (returned or raised) per session
MaxWrites == 2
\* write() calls that raise, in one behaviour
MaxFaults == 1
\* write sessions (__enter__ calls) in one behaviour
MaxSessions == 2

\* the byte strings handed to write(): empty, one byte, two bytes
Records == { <<>>, <<"a">>, <<"b", "c">> }

\* the indices handed to __getitem__
Indexes == (0 - (MaxWrites + 1)) .. (MaxWrites + 1)

\* IndexDataFileReader objects open side by side on one prefix
MaxReaders == 2

\* largest duplication factor of a stream of an IndexDataDataset
MaxDup == 2

\* the streams of the IndexDataDataset: the first gives the length
Streams == {1, 2}

\* the records of a stream of the IndexDataDataset
StreamRecords == { <<"a">>, <<"b", "c">> }

\* frames of the logits matrix given to ctc_best_path
MaxFrames == 4

\* labels of the text given to ctc_best_path
MaxLabels == 2

\* the non-blank labels of a text; label 0 is the blank
Labels == {1, 2}

\* the rows of a logits matrix: one logit for the blank and for each label
LogitRows == { <<0, 0, 0>>, <<1, 0, 0>>, <<0, 1, 0>>, <<0, 0, 1>>,
               <<2, 1, 0>>, <<0, 1, 2>> }

\* variable scopes open at once
MaxDepth == 2

\* entries of trainable_variables
MaxVars == 1

\* names of variable scopes, as sequences of characters
ScopeNames == { <<>>, <<"a">>, <<"b">> }

\* names of variables
VarNames == { <<"w">> }

\* values of variables
VarValues == {1, 2}

\* item reads of an EncodedCacheDataset
MaxReads == 2

\* the items of the dataset under an EncodedCacheDataset: data[0] (the audio
\* path) and data[1] (the text), as sequences of characters
Items == { << <<"a">>, <<"b">> >>,
           << <<"a", "@", "b">>, <<"c">> >>,
           << <<"a">>, <<"b", "@", "c">> >> }

\* dtypes, by the number of bytes of an element
DTypes == {1, 2}

\* shapes (-1, c), by the number c of elements of a row
Shapes == {1, 2}

VARIABLES
    idxExists,  \* '<prefix>.idx' exists
    idxFile,    \* its content, one entry per int64
    binExists,  \* '<prefix>.bin' exists
    binFile,    \* its content, one element per byte
    current,    \* IndexDataFileWriter.current
    idx_f,      \* IndexDataFileWriter.idx_f: "unset", "open" or "closed"
    bin_f,      \* IndexDataFileWriter.bin_f: "unset", "open" or "closed"
    wpc,        \* the with statement: "new", "body", "raising", "done"
    pending,    \* the exception leaving the with body: "none" or "write"
    surfaced,   \* what the with statement raised to its caller
    enters,     \* __enter__ calls on this writer object
    sessions,   \* __enter__ calls on any writer object
    calls,      \* write() calls since the last __enter__ (or construction)
    faults,     \* write() calls that raised so far
    written,    \* the records of the write() calls that returned, in order
    firstFail,  \* Len(written) at the first write() that raised, or -1
    rV1,        \* the IndexDataFileReaderV1 object
    rMM,        \* the IndexDataFileReader object
    outV1,      \* outcome of the last operation on the eager reader
    outMM,      \* outcome of the last operation on the mapped reader
    wout,       \* outcome of the last write() called outside a session
    pool,       \* IndexDataFileReader objects opened side by side on the prefix
    pout,       \* who: the pool reader last operated on (0: none), out: the outcome
    entries,    \* per stream: the records of its store and the arguments
                \* given for it to IndexDataDataset (kind, shape, dtype, dup)
    nodups,     \* IndexDataDataset is given no dups argument (dups=None)
    comp,       \* the IndexDataDataset: st ("none", "open", "failed"), readers, dups
    cout,       \* outcome of the last operation on the IndexDataDataset
    logits,     \* ctc_best_path: the logits matrix, a row per frame
    labels,     \* ctc_best_path: the labels argument (the text)
    cands,      \* ctc_best_path: cands, one (logit, hist, path) per position
    frame,      \* ctc_best_path: the frame i the loop processes next
    ctcOut,     \* what ctc_best_path returned: logprob, best_hist, best_path
    variable_space,       \* transformer.variable_space, a sequence of characters
    scopes,               \* the entered _VariableScope objects, innermost last
    trainable_variables,  \* transformer.trainable_variables: key -> value
    save_mcep,  \* EncodedCacheDataset.save_mcep
    cacheFiles, \* the cache directory: hashed string -> content of the file
    reads,      \* item reads so far
    lastRead,   \* the last item read: item, value returned, what was done
    scopeOut    \* the last get_variable or set_variable since a scope was
                \* entered or left: name, key, outcome

fsVars == <<idxExists, idxFile, binExists, binFile>>
writerVars == <<current, idx_f, bin_f, wpc, pending, surfaced, enters, sessions,
                calls, faults, written, firstFail, wout>>
readerVars == <<rV1, rMM, outV1, outMM>>
poolVars == <<pool, pout>>
compVars == <<entries, nodups, comp, cout>>
\* what the writer and the two side-by-side readers leave alone
ctcVars == <<logits, labels, cands, frame, ctcOut>>
\* the state outside data.py
scopeVars == <<variable_space, scopes, trainable_variables, scopeOut>>
cacheVars == <<save_mcep, cacheFiles, reads, lastRead>>
moreVars == <<ctcVars, scopeVars, cacheVars>>
\* the state of data.py
dataVars == <<fsVars, writerVars, readerVars, poolVars, compVars>>
\* what the writer and the two side-by-side readers leave alone
otherVars == <<poolVars, compVars, moreVars>>
\* what the pool readers leave alone
notPoolVars == <<writerVars, readerVars, compVars, moreVars>>
\* what the IndexDataDataset leaves alone
notCompVars == <<fsVars, writerVars, readerVars, poolVars, moreVars>>
vars == <<fsVars, writerVars, readerVars, otherVars>>

\* ----------------------------------------------------------------- helpers
Min(a, b) == IF a < b THEN a ELSE b

\* the first k elements of s
Take(s, k) == SubSeq(s, 1, Min(k, Len(s)))

\* the outcome of a reader operation: what was called (op, and arg for a
\* lookup), whether it returned (ok), and the length or bytes returned or the
\* error raised
NoOut == [op |-> "none", arg |-> 0, ok |-> TRUE, len |-> -1, val |-> <<>>, err |-> "none"]
OkLen(o, n) == [op |-> o, arg |-> 0, ok |-> TRUE, len |-> n, val |-> <<>>, err |-> "none"]
OkVal(i, v) == [op |-> "get", arg |-> i, ok |-> TRUE, len |-> -1, val |-> v, err |-> "none"]
OkNone(o) == [op |-> o, arg |-> 0, ok |-> TRUE, len |-> -1, val |-> <<>>, err |-> "none"]
Fail(o, e) == [op |-> o, arg |-> 0, ok |-> FALSE, len |-> -1, val |-> <<>>, err |-> e]
FailGet(i, e) == [op |-> "get", arg |-> i, ok |-> FALSE, len |-> -1, val |-> <<>>, err |-> e]

NoReaderV1 == [st |-> "none", indices |-> <<>>, data |-> <<>>]
NoReaderMM == [st |-> "none", indices |-> <<>>, data |-> <<>>,
               file_obj |-> "unset", map |-> "unset"]

RECURSIVE PrefixSums(_, _)
\* the index file after write() calls with the records rs, from a running
\* total of base: L_0, L_0 + L_1, ... for the lengths of the records
PrefixSums(rs, base) ==
    IF rs = <<>> THEN <<>>
    ELSE <<base + Len(Head(rs))>> \o PrefixSums(Tail(rs), base + Len(Head(rs)))

RECURSIVE Concat(_)
\* the data file after write() calls with the records rs: r_0 ++ r_1 ++ ...
Concat(rs) == IF rs = <<>> THEN <<>> ELSE Head(rs) \o Concat(Tail(rs))

\* no IndexDataDataset has been constructed
NoComp == [st |-> "none", readers |-> <<>>, dups |-> <<>>]

\* ---------------------------------------------------------------- writer
InitStore ==
    /\ idxExists = FALSE /\ idxFile = <<>>
    /\ binExists = FALSE /\ binFile = <<>>
    /\ current = 0 /\ idx_f = "unset" /\ bin_f = "unset"
    /\ wpc = "new" /\ pending = "none" /\ surfaced = "none"
    /\ enters = 0 /\ sessions = 0 /\ calls = 0 /\ faults = 0
    /\ written = <<>> /\ firstFail = -1
    /\ rV1 = NoReaderV1 /\ rMM = NoReaderMM
    /\ outV1 = NoOut /\ outMM = NoOut
    /\ wout = "none"
    /\ pool = [j \in 1 .. MaxReaders |-> NoReaderMM]
    /\ pout = [who |-> 0, out |-> NoOut]

\* ctc_best_path has not been called
NoCtc ==
    /\ logits = <<>> /\ labels = <<>> /\ cands = <<>>
    /\ frame = 0 /\ ctcOut = <<>>

\* no get_variable or set_variable has been called
NoScopeOut == [op |-> "none", name |-> <<>>, key |-> <<>>, ok |-> TRUE, val |-> 0]

\* transformer.py as imported: variable_space = '', trainable_variables = {}
InitScope ==
    /\ variable_space = <<>> /\ scopes = <<>>
    /\ trainable_variables = <<>> /\ scopeOut = NoScopeOut

\* no item has been read
NoRead ==
    [item |-> <<>>, ok |-> TRUE, val |-> <<>>, loadable |-> FALSE,
     transformed |-> FALSE, load |-> "none", save |-> "none"]

\* an EncodedCacheDataset over an empty cache directory
InitCache ==
    /\ save_mcep = FALSE /\ cacheFiles = <<>>
    /\ reads = 0 /\ lastRead = NoRead

\* nothing outside data.py has run
InitMore == NoCtc /\ InitScope /\ InitCache

\* no IndexDataDataset is constructed
InitData ==
    InitStore /\ entries = <<>> /\ nodups = FALSE /\ comp = NoComp /\ cout = NoOut

Init == InitData /\ InitMore

\* open_index_data_for_write(prefix): a new writer object, current = 0
NewWriter ==
    /\ wpc = "done"
    /\ sessions < MaxSessions
    /\ rV1.st = "none" /\ rMM.st = "none"
    /\ current' = 0 /\ idx_f' = "unset" /\ bin_f' = "unset"
    /\ wpc' = "new" /\ pending' = "none" /\ surfaced' = "none"
    /\ enters' = 0 /\ calls' = 0
    /\ written' = <<>> /\ firstFail' = -1 /\ wout' = "none"
    /\ UNCHANGED <<sessions, faults, fsVars, readerVars, otherVars>>

\* __enter__: open(idx, 'wb') then open(bin, 'wb'); 'wb' creates or truncates.
\* how: "ok", "idx_fail" (the first open raises), "bin_fail" (the second does)
Enter(how) ==
    /\ wpc \in {"new", "done"}
    /\ sessions < MaxSessions
    /\ rV1.st = "none" /\ rMM.st = "none"
    /\ \A j \in 1 .. MaxReaders : pool[j].st = "none"
    /\ sessions' = sessions + 1 /\ enters' = enters + 1
    /\ calls' = 0 /\ written' = <<>> /\ firstFail' = -1
    /\ pending' = "none"
    /\ UNCHANGED <<current, faults, wout, readerVars, otherVars>>
    /\ CASE how = "idx_fail" ->
              /\ wpc' = "done" /\ surfaced' = "open"
              /\ UNCHANGED <<idx_f, bin_f, fsVars>>
         [] how = "bin_fail" ->
              /\ idx_f' = "open" /\ idxExists' = TRUE /\ idxFile' = <<>>
              /\ wpc' = "done" /\ surfaced' = "open"
              /\ UNCHANGED <<bin_f, binExists, binFile>>
         [] OTHER ->
              /\ idx_f' = "open" /\ idxExists' = TRUE /\ idxFile' = <<>>
              /\ bin_f' = "open" /\ binExists' = TRUE /\ binFile' = <<>>
              /\ wpc' = "body" /\ surfaced' = "none"

\* how many bytes of data a raising bin_f.write may have appended
PartialLens(data) == 0 .. (Len(data) - 1)

\* write(data): current += len(data); idx_f.write(current); bin_f.write(data).
\* how: "ok", "idx_fail" (idx_f.write raises), "bin_fail" (bin_f.write raises
\* after k bytes; a write of no bytes does no I/O and does not raise);
\* caught: the with body handles the exception and goes on (TRUE when
\* nothing is raised).
Write(data, how, k, caught) ==
    /\ wpc = "body"
    /\ calls < MaxWrites
    /\ how # "ok" => faults < MaxFaults
    /\ how = "bin_fail" => k \in PartialLens(data)
    /\ how = "ok" => caught
    /\ faults' = IF how = "ok" THEN faults ELSE faults + 1
    /\ calls' = calls + 1
    /\ current' = current + Len(data)
    /\ CASE how = "idx_fail" -> UNCHANGED <<idxFile, binFile>>
         [] how = "bin_fail" ->
              /\ idxFile' = Append(idxFile, current')
              /\ binFile' = binFile \o Take(data, k)
         [] OTHER ->
              /\ idxFile' = Append(idxFile, current')
              /\ binFile' = binFile \o data
    /\ IF how = "ok"
       THEN /\ written' = Append(written, data)
            /\ UNCHANGED <<firstFail, wpc, pending>>
       ELSE /\ firstFail' = IF firstFail = -1 THEN Len(written) ELSE firstFail
            /\ wpc' = IF caught THEN "body" ELSE "raising"
            /\ pending' = IF caught THEN pending ELSE "write"
            /\ UNCHANGED written
    /\ UNCHANGED <<idxExists, binExists, idx_f, bin_f, surfaced, enters,
                   sessions, wout, readerVars, otherVars>>

\* __exit__: idx_f.close() then bin_f.close(), with no handler around either.
\* A close() that raises has released its descriptor; an exception raised by
\* __exit__ replaces the one that left the body, and a None return lets the
\* body's exception go on.  how: "ok", "idx_fail", "bin_fail"
Exit(how) ==
    /\ wpc \in {"body", "raising"}
    /\ wpc' = "done"
    /\ idx_f' = "closed"
    /\ bin_f' = IF how = "idx_fail" THEN bin_f ELSE "closed"
    /\ surfaced' = IF how = "ok" THEN pending ELSE "close"
    /\ UNCHANGED <<current, pending, enters, sessions, calls, faults, written,
                   firstFail, wout, fsVars, readerVars, otherVars>>

\* write(data) called on the writer object outside a with statement: before
\* __enter__, or after the with statement has ended.  The same three
\* statements run: current += len(data); then self.idx_f.write, which raises
\* AttributeError when __enter__ never set idx_f and ValueError on a closed
\* file; then self.bin_f.write likewise.  A handle that a failed __enter__ or
\* a failed __exit__ left open takes the write.
WriteOutside(data) ==
    /\ wpc \in {"new", "done"}
    /\ calls < MaxWrites
    /\ calls' = calls + 1
    /\ current' = current + Len(data)
    /\ idxFile' = IF idx_f = "open" THEN Append(idxFile, current') ELSE idxFile
    /\ binFile' = IF idx_f = "open" /\ bin_f = "open" THEN binFile \o data
                  ELSE binFile
    /\ wout' = CASE idx_f = "unset" -> "AttributeError"
                  [] idx_f = "closed" -> "ValueError"
                  [] bin_f = "unset" -> "AttributeError"
                  [] bin_f = "closed" -> "ValueError"
                  [] OTHER -> "ok"
    /\ UNCHANGED <<idxExists, binExists, idx_f, bin_f, wpc, pending, surfaced,
                   enters, sessions, faults, written, firstFail, readerVars,
                   otherVars>>

\* --------------------------------------------------------------- readers
\* NpIndex with an i past the end clamped to the last element
NpIndexClamped(arr, i) ==
    IF 0 <= i /\ i < Len(arr) THEN [ok |-> TRUE, v |-> arr[i + 1]]
    ELSE IF i < 0 /\ 0 - Len(arr) <= i THEN [ok |-> TRUE, v |-> arr[Len(arr) + i + 1]]
    ELSE IF i >= Len(arr) /\ Len(arr) > 0 THEN [ok |-> TRUE, v |-> arr[Len(arr)]]
    ELSE [ok |-> FALSE, v |-> 0]

\* arr[i] of a numpy array: a negative i counts from the end, and an i outside
\* [-len, len) raises IndexError
NpIndex(arr, i) ==
    IF 0 <= i /\ i < Len(arr) THEN [ok |-> TRUE, v |-> arr[i + 1]]
    ELSE IF i < 0 /\ 0 - Len(arr) <= i THEN [ok |-> TRUE, v |-> arr[Len(arr) + i + 1]]
    ELSE [ok |-> FALSE, v |-> 0]

\* data[start:end] for start, end >= 0: both ends are clipped to len(data)
Slice(data, start, end) ==
    IF start >= Min(end, Len(data)) THEN <<>>
    ELSE SubSeq(data, start + 1, Min(end, Len(data)))

\* IndexDataFileReaderV1.__getitem__
V1GetItem(r, index) ==
    LET start == IF index > 0 THEN NpIndex(r.indices, index - 1)
                 ELSE [ok |-> TRUE, v |-> 0]
        end == NpIndex(r.indices, index)
    IN  IF ~start.ok \/ ~end.ok THEN FailGet(index, "IndexError")
        ELSE OkVal(index, Slice(r.data, start.v, end.v))

\* IndexDataFileReader.__getitem__: the same lookups, then a slice of the
\* mapping, which raises ValueError once the mapping is closed
MMGetItem(r, index) ==
    LET start == IF index > 0 THEN NpIndex(r.indices, index - 1)
                 ELSE [ok |-> TRUE, v |-> 0]
        end == NpIndex(r.indices, index)
    IN  IF ~start.ok \/ ~end.ok THEN FailGet(index, "IndexError")
        ELSE IF r.map # "open" THEN FailGet(index, "ValueError")
        ELSE OkVal(index, Slice(r.data, start.v, end.v))

\* IndexDataFileReaderV1.__init__: np.fromfile of both files
V1Init ==
    IF ~idxExists \/ ~binExists THEN NoReaderV1
    ELSE [st |-> "open", indices |-> idxFile, data |-> binFile]

\* IndexDataFileReader.__init__: np.fromfile of the index, open() of the data
\* file, mmap.mmap(fileno, length=0), which raises on an empty file; nothing
\* in the constructor closes self.file_obj when the mapping raises, so the
\* object the constructor abandons still holds the open handle
MMInitOn(idx, bin) ==
    IF bin = <<>> THEN [NoReaderMM EXCEPT !.file_obj = "open"]
    ELSE [st |-> "open", indices |-> idx, data |-> bin,
          file_obj |-> "open", map |-> "open"]

\* IndexDataFileReader(prefix) on the prefix the writer writes
MMInit ==
    IF ~idxExists \/ ~binExists THEN NoReaderMM
    ELSE MMInitOn(idxFile, binFile)

\* the error the mapped reader's constructor raises, "none" if it returns
MMInitError ==
    IF ~idxExists \/ ~binExists THEN "FileNotFoundError"
    ELSE IF binFile = <<>> THEN "ValueError"
    ELSE "none"

\* the caller has taken the outcome of the last operation and may issue the next
Idle == outV1.op = "none" /\ outMM.op = "none"

\* both variants are constructed on the prefix: before any write session, or
\* after one has ended
OpenReaders ==
    /\ wpc = "done" \/ sessions = 0
    /\ rV1.st = "none" /\ rMM.st = "none"
    /\ Idle
    /\ rV1' = V1Init
    /\ outV1' = IF V1Init.st = "open" THEN OkNone("open")
                ELSE Fail("open", "FileNotFoundError")
    /\ rMM' = MMInit
    /\ outMM' = IF MMInit.st = "open" THEN OkNone("open")
                ELSE Fail("open", MMInitError)
    /\ UNCHANGED <<fsVars, writerVars, otherVars>>

\* a variant whose constructor raised left no object to operate on
NoReader(o) == Fail(o, "NoReader")

\* what may become of a reader object once the caller has handled the outcome:
\* no code closes the handle of an object whose constructor raised, it is
\* closed when the interpreter finalizes the object, at once or not at all
Finalized(r) ==
    IF r.st = "none" /\ r.file_obj = "open" THEN {r, NoReaderMM} ELSE {r}

\* the caller takes the outcome of the last operation
Return ==
    /\ ~Idle
    /\ outV1' = NoOut /\ outMM' = NoOut
    /\ rMM' \in Finalized(rMM)
    /\ UNCHANGED <<rV1, fsVars, writerVars, otherVars>>

\* len(reader) on both variants: __len__ is len(self.indices)
LenReaders ==
    /\ Idle
    /\ rV1.st # "none" \/ rMM.st # "none"
    /\ outV1' = IF rV1.st = "none" THEN NoReader("len")
                ELSE OkLen("len", Len(rV1.indices))
    /\ outMM' = IF rMM.st = "none" THEN NoReader("len")
                ELSE OkLen("len", Len(rMM.indices))
    /\ UNCHANGED <<rV1, rMM, fsVars, writerVars, otherVars>>

\* reader[index] on both variants, for the indices up to one past the
\* longest lookup that can succeed (those beyond fail the same way)
GetReaders(index) ==
    /\ Idle
    /\ rV1.st # "none" \/ rMM.st # "none"
    /\ LET n == Len(idxFile) IN 0 - (n + 1) <= index /\ index <= n + 1
    /\ outV1' = IF rV1.st = "none" THEN FailGet(index, "NoReader")
                ELSE V1GetItem(rV1, index)
    /\ outMM' = IF rMM.st = "none" THEN FailGet(index, "NoReader")
                ELSE MMGetItem(rMM, index)
    /\ UNCHANGED <<rV1, rMM, fsVars, writerVars, otherVars>>

\* a close() that releases the file handle and keeps the mapping
MMCloseFileOnly(r) == [r EXCEPT !.st = "closed", !.file_obj = "closed"]

\* IndexDataFileReader.close: self.data.close(); self.file_obj.close()
MMClose(r) == [r EXCEPT !.st = "closed", !.map = "closed", !.file_obj = "closed"]

\* reader.close() on both variants; IndexDataFileReaderV1 defines no close,
\* so the call raises AttributeError
CloseReaders ==
    /\ Idle
    /\ rV1.st # "none" \/ rMM.st # "none"
    /\ outV1' = IF rV1.st = "none" THEN NoReader("close")
                ELSE Fail("close", "AttributeError")
    /\ outMM' = IF rMM.st = "none" THEN NoReader("close") ELSE OkNone("close")
    /\ rMM' = IF rMM.st = "none" THEN rMM ELSE MMClose(rMM)
    /\ UNCHANGED <<rV1, fsVars, writerVars, otherVars>>

\* ------------------------------------------------- readers side by side
\* the pool after reader j's close(): close touches the fields of self only
PoolAfterCloseAll(p, j) ==
    [i \in DOMAIN p |-> IF p[i].st = "open" THEN MMClose(p[i]) ELSE p[i]]

PoolAfterClose(p, j) == [p EXCEPT ![j] = MMClose(p[j])]

\* the caller has taken the outcome of the last pool operation
PoolIdle == pout.who = 0

\* the caller takes the outcome of the last pool operation
PoolReturn ==
    /\ ~PoolIdle
    /\ pout' = [who |-> 0, out |-> NoOut]
    /\ UNCHANGED <<pool, fsVars, notPoolVars>>

\* pool reader j is constructed on the prefix: IndexDataFileReader(prefix)
PoolOpen(j) ==
    /\ PoolIdle
    /\ wpc = "done" \/ sessions = 0
    /\ pool[j].st = "none"
    /\ \E r \in Finalized(MMInit) : pool' = [pool EXCEPT ![j] = r]
    /\ pout' = [who |-> j,
                out |-> IF MMInit.st = "open" THEN OkNone("open")
                        ELSE Fail("open", MMInitError)]
    /\ UNCHANGED <<fsVars, notPoolVars>>

\* len(reader j)
PoolLen(j) ==
    /\ PoolIdle
    /\ pool[j].st # "none"
    /\ pout' = [who |-> j, out |-> OkLen("len", Len(pool[j].indices))]
    /\ UNCHANGED <<pool, fsVars, notPoolVars>>

\* reader j [index]
PoolGet(j, index) ==
    /\ PoolIdle
    /\ pool[j].st # "none"
    /\ LET n == Len(idxFile) IN 0 - (n + 1) <= index /\ index <= n + 1
    /\ pout' = [who |-> j, out |-> MMGetItem(pool[j], index)]
    /\ UNCHANGED <<pool, fsVars, notPoolVars>>

\* reader j .close()
PoolClose(j) ==
    /\ PoolIdle
    /\ pool[j].st # "none"
    /\ pool' = PoolAfterClose(pool, j)
    /\ pout' = [who |-> j, out |-> OkNone("close")]
    /\ UNCHANGED <<fsVars, notPoolVars>>

\* ------------------------------------------------------- IndexDataDataset
\* the record lists a write session of at most MaxWrites write() calls leaves
StreamContents ==
    UNION { [1 .. n -> StreamRecords] : n \in 0 .. MaxWrites }

\* what is given to IndexDataDataset for one stream: kind "path" is a prefix
\* (a str), kind "V1" an IndexDataFileReaderV1 opened by the caller; recs are
\* the records of the stream's store
Entries ==
    [recs : StreamContents, kind : {"path", "V1"}, shape : Shapes,
     dtype : DTypes, dup : 1 .. MaxDup]

\* _getreader(reader_or_file): a str is opened with IndexDataFileReader, a
\* reader is taken as it is
GetReader(e) ==
    IF e.kind = "path"
    THEN MMInitOn(PrefixSums(e.recs, 0), Concat(e.recs))
    ELSE [st |-> "open", indices |-> PrefixSums(e.recs, 0), data |-> Concat(e.recs)]

\* the streams whose reader cannot be constructed
Unopenable(es) == {s \in DOMAIN es : GetReader(es[s]).st # "open"}

\* the smallest element of a non-empty set of numbers
Least(S) == CHOOSE x \in S : \A y \in S : x <= y

\* the caller has taken the outcome of the last operation on the dataset
CompIdle == cout.op = "none"

\* the caller takes the outcome of the last operation on the dataset
CompReturn ==
    /\ ~CompIdle
    /\ cout' = NoOut
    /\ UNCHANGED <<entries, nodups, comp, notCompVars>>

\* default factors that are the number of streams
DefaultDupsLen(es) == [s \in DOMAIN es |-> Len(es)]

\* [1] * len(readers_or_files)
DefaultDups(es) == [s \in DOMAIN es |-> 1]

\* self.dups: the dups argument if it is given, else the default
DupsOf(es, none) ==
    IF none THEN DefaultDups(es) ELSE [s \in DOMAIN es |-> es[s].dup]

\* IndexDataDataset(readers_or_files, shapes, dtypes, dups): the readers are
\* constructed in stream order; the first constructor that raises ends the
\* construction, and the readers constructed before it stay as they are
CompInit ==
    /\ CompIdle
    /\ comp.st = "none"
    /\ LET bad == Unopenable(entries)
       IN  IF bad = {}
           THEN /\ comp' = [st |-> "open",
                            readers |-> [s \in DOMAIN entries |-> GetReader(entries[s])],
                            dups |-> DupsOf(entries, nodups)]
                /\ cout' = OkNone("init")
           ELSE /\ comp' = [st |-> "failed",
                            readers |-> [s \in 1 .. (Least(bad) - 1) |->
                                            GetReader(entries[s])],
                            dups |-> <<>>]
                /\ cout' = Fail("init", "ValueError")
    /\ UNCHANGED <<entries, nodups, notCompVars>>

\* __len__ with the length of another stream than the first
CompLenOfLast(readers) == Len(readers[Len(readers)].indices)

\* __len__: len(self.readers[0])
CompLenOf(readers) == Len(readers[1].indices)

\* len(dataset)
CompLen ==
    /\ CompIdle
    /\ comp.st = "open"
    /\ cout' = OkLen("len", CompLenOf(comp.readers))
    /\ UNCHANGED <<entries, nodups, comp, notCompVars>>

\* the record index that ignores the duplication factor
RecordIndexNoDup(index, dup) == index

\* index // dup
RecordIndex(index, dup) == index \div dup

\* a frombuffer that drops the bytes after the last whole element
FromBufferWhole(buf, dtype) ==
    [ok |-> TRUE,
     v |-> [i \in 1 .. (Len(buf) \div dtype) |->
               SubSeq(buf, (i - 1) * dtype + 1, i * dtype)]]

\* np.frombuffer(buf, dtype): raises unless len(buf) is a multiple of the
\* element size; the elements are the runs of dtype bytes
FromBuffer(buf, dtype) ==
    IF Len(buf) % dtype # 0 THEN [ok |-> FALSE, v |-> <<>>]
    ELSE [ok |-> TRUE,
          v |-> [i \in 1 .. (Len(buf) \div dtype) |->
                    SubSeq(buf, (i - 1) * dtype + 1, i * dtype)]]

\* arr.reshape((-1, shape)): raises unless the number of elements is a
\* multiple of the row length; the rows are the runs of shape elements
Reshape(arr, shape) ==
    IF Len(arr) % shape # 0 THEN [ok |-> FALSE, v |-> <<>>]
    ELSE [ok |-> TRUE,
          v |-> [i \in 1 .. (Len(arr) \div shape) |->
                    SubSeq(arr, (i - 1) * shape + 1, i * shape)]]

\* np.frombuffer(buf, dtype=dtype).reshape(shape)
Decode(buf, dtype, shape) ==
    LET arr == FromBuffer(buf, dtype)
    IN  IF ~arr.ok THEN arr ELSE Reshape(arr.v, shape)

\* one element of the list that __getitem__ builds: reader[index // dup],
\* decoded; err is the error raised, "none" if the element is built
StreamItem(e, r, index) ==
    LET got == IF e.kind = "path" THEN MMGetItem(r, RecordIndex(index, e.dup))
               ELSE V1GetItem(r, RecordIndex(index, e.dup))
        arr == Decode(got.val, e.dtype, e.shape)
    IN  IF ~got.ok THEN [ok |-> FALSE, v |-> <<>>, err |-> got.err]
        ELSE IF ~arr.ok THEN [ok |-> FALSE, v |-> <<>>, err |-> "ValueError"]
        ELSE [ok |-> TRUE, v |-> arr.v, err |-> "none"]

\* dataset[index]: the list of the streams' elements in stream order; the
\* first element that raises ends the call
CompGet(index) ==
    /\ CompIdle
    /\ comp.st = "open"
    /\ index <= CompLenOf(comp.readers)
    /\ LET item(s) == StreamItem([entries[s] EXCEPT !.dup = comp.dups[s]],
                                 comp.readers[s], index)
           bad == {s \in DOMAIN entries : ~item(s).ok}
       IN  cout' = IF bad = {}
                   THEN OkVal(index, [s \in DOMAIN entries |-> item(s).v])
                   ELSE FailGet(index, item(Least(bad)).err)
    /\ UNCHANGED <<entries, nodups, comp, notCompVars>>

\* the streams whose reader has no close method
Uncloseable(es) == {s \in DOMAIN es : es[s].kind = "V1"}

\* dataset.close(): reader.close() in stream order; a close that raises ends
\* the loop
CompClose ==
    /\ CompIdle
    /\ comp.st = "open"
    /\ LET bad == Uncloseable(entries)
           upto == IF bad = {} THEN Len(comp.readers) ELSE Least(bad) - 1
       IN  /\ comp' = [comp EXCEPT !.readers =
                          [s \in DOMAIN comp.readers |->
                              IF s <= upto THEN MMClose(comp.readers[s])
                              ELSE comp.readers[s]]]
           /\ cout' = IF bad = {} THEN OkNone("close")
                      ELSE Fail("close", "AttributeError")
    /\ UNCHANGED <<entries, nodups, notCompVars>>

\* ---------------------------------------------------------- ctc_best_path
\* labels expanded with blanks: np.zeros(2 * L + 1) with labels[1::2] = tmp
Expand(text) ==
    [p \in 1 .. (2 * Len(text) + 1) |-> IF p % 2 = 0 THEN text[p \div 2] ELSE 0]

\* logits[i, label] of a row of the matrix
Logit(row, label) == row[label + 1]

\* a candidate taken one frame on to position pos: its logit plus
\* logits[i, labels[pos]], its hist and path with pos and labels[pos] appended
Extend(c, pos, row, lab) ==
    [logit |-> c.logit + Logit(row, lab[pos + 1]),
     hist |-> Append(c.hist, pos),
     path |-> Append(c.path, lab[pos + 1])]

\* a candidate that takes the place of the one at position q whatever its logit
PutAlways(next, q, c) ==
    IF q = Len(next) THEN Append(next, c) ELSE [next EXCEPT ![q + 1] = c]

\* the candidate c arrives at position q of next_cands: appended if q is the
\* next free position, else it replaces the one there if its logit is greater
Put(next, q, c) ==
    IF q = Len(next) THEN Append(next, c)
    ELSE IF c.logit > next[q + 1].logit THEN [next EXCEPT ![q + 1] = c]
    ELSE next

\* the first loop: every candidate stays at its position
Stays(cs, row, lab) == [q \in 1 .. Len(cs) |-> Extend(cs[q], q - 1, row, lab)]

RECURSIVE Forwards(_, _, _, _, _)
\* the second loop, from pos on: every candidate moves to the next position
Forwards(next, cs, pos, row, lab) ==
    IF pos >= Len(cs) THEN next
    ELSE Forwards(IF pos + 1 < Len(lab)
                  THEN Put(next, pos + 1, Extend(cs[pos + 1], pos + 1, row, lab))
                  ELSE next,
                  cs, pos + 1, row, lab)

\* a skip from pos that does not look at what is skipped
CanSkipAny(lab, pos) == pos + 2 < Len(lab)

\* the condition of the third loop: pos + 2 < len(labels) and
\* labels[pos + 1] == 0
CanSkip(lab, pos) == pos + 2 < Len(lab) /\ lab[pos + 2] = 0

RECURSIVE Skips(_, _, _, _, _)
\* the third loop, from pos on: every candidate moves two positions on, over
\* a blank.  hist3.append and path3.append change the lists of cands in
\* place; no other candidate holds these lists, and cands is dropped after
\* the loop
Skips(next, cs, pos, row, lab) ==
    IF pos >= Len(cs) THEN next
    ELSE Skips(IF CanSkip(lab, pos)
               THEN Put(next, pos + 2, Extend(cs[pos + 1], pos + 2, row, lab))
               ELSE next,
               cs, pos + 1, row, lab)

\* cands before the loop over the frames: position 0 at frame 0
FirstCands(lg, text) ==
    << [logit |-> Logit(lg[1], Expand(text)[1]), hist |-> <<0>>,
        path |-> <<Expand(text)[1]>>] >>

\* one round of the loop over the frames
CtcFrame ==
    /\ logits # <<>> /\ ctcOut = <<>>
    /\ frame < Len(logits)
    /\ LET row == logits[frame + 1]
           lab == Expand(labels)
       IN  cands' = Skips(Forwards(Stays(cands, row, lab), cands, 0, row, lab),
                          cands, 0, row, lab)
    /\ frame' = frame + 1
    /\ UNCHANGED <<logits, labels, ctcOut, dataVars, scopeVars, cacheVars>>

\* after the last frame: logprob, best_hist, best_path = cands[-1]
CtcReturn ==
    /\ logits # <<>> /\ ctcOut = <<>>
    /\ frame = Len(logits)
    /\ ctcOut' = << [logprob |-> cands[Len(cands)].logit,
                     best_hist |-> cands[Len(cands)].hist,
                     best_path |-> cands[Len(cands)].path] >>
    /\ UNCHANGED <<logits, labels, cands, frame, dataVars, scopeVars, cacheVars>>

\* --------------------------------------------------------- variable scopes
\* an __enter__ that puts the '/' also after an empty variable_space
EnteredAlwaysSlash(space, name) == space \o <<"/">> \o name

\* _VariableScope.__enter__: variable_space += '/' + self.name if
\* variable_space is not empty, else variable_space = self.name
Entered(space, name) ==
    IF space # <<>> THEN space \o <<"/">> \o name ELSE name

\* with variable_scope(name): a new _VariableScope is entered
ScopeEnter(name) ==
    /\ Len(scopes) < MaxDepth
    /\ scopes' = Append(scopes, [name |-> name, parent |-> variable_space])
    /\ variable_space' = Entered(variable_space, name)
    /\ scopeOut' = NoScopeOut
    /\ UNCHANGED <<trainable_variables, ctcVars, cacheVars, dataVars>>

\* the innermost with block ends, by its last statement or by an exception:
\* __exit__ restores variable_space from self.parent and returns None
ScopeExit ==
    /\ scopes # <<>>
    /\ variable_space' = scopes[Len(scopes)].parent
    /\ scopes' = SubSeq(scopes, 1, Len(scopes) - 1)
    /\ scopeOut' = NoScopeOut
    /\ UNCHANGED <<trainable_variables, ctcVars, cacheVars, dataVars>>

\* the names of the open scopes, outermost first
OpenNames == [i \in 1 .. Len(scopes) |-> scopes[i].name]

\* the key of a variable: variable_space + '/' + name
VarKey(space, name) == space \o <<"/">> \o name

\* set_variable(name, value)
SetVariable(name, value) ==
    LET key == VarKey(variable_space, name)
    IN  /\ key \in DOMAIN trainable_variables
              \/ Cardinality(DOMAIN trainable_variables) < MaxVars
        /\ trainable_variables' =
              [k \in DOMAIN trainable_variables \cup {key} |->
                  IF k = key THEN value ELSE trainable_variables[k]]
        /\ scopeOut' = [op |-> "set", name |-> name, key |-> key, ok |-> TRUE,
                        val |-> value]
        /\ UNCHANGED <<variable_space, scopes, ctcVars, cacheVars, dataVars>>

\* get_variable(name): trainable_variables[key], KeyError if there is none
GetVariable(name) ==
    LET key == VarKey(variable_space, name)
    IN  /\ scopeOut' =
              IF key \in DOMAIN trainable_variables
              THEN [op |-> "get", name |-> name, key |-> key, ok |-> TRUE,
                    val |-> trainable_variables[key]]
              ELSE [op |-> "get", name |-> name, key |-> key, ok |-> FALSE,
                    val |-> 0]
        /\ UNCHANGED <<variable_space, scopes, trainable_variables, ctcVars,
                       cacheVars, dataVars>>

\* ----------------------------------------------------- EncodedCacheDataset
\* the string that is hashed into the name of the cache file of an item:
\* data[0] + '@' + data[1].  sha1 and the salt of the dataset give distinct
\* file names to distinct strings, so the string stands for the file name
CacheKey(data) == data[1] \o <<"@">> \o data[2]

\* self._transform(*data): the encoded audio (the log spectrum, a number
\* drawn from the audio path) and the encoded text
Transform(data) == [audio |-> 2 * Len(data[1]) + 1, text |-> data[2]]

\* logspc @ sp2mc_matrix: to the mel-cepstrum, which holds less
ToMcep(e) == [e EXCEPT !.audio = e.audio \div 2]

\* mcep @ mc2sp_matrix: back to a log spectrum
ToLogspc(e) == [e EXCEPT !.audio = 2 * e.audio]

\* what torch.save writes for the encoded data
Saved(e, mcep) == IF mcep THEN ToMcep(e) ELSE e

\* what __getitem__ returns for what was loaded or saved
Returns(e, mcep) == IF mcep THEN ToLogspc(e) ELSE e

\* the cache directory with the file key holding content
WithFile(files, key, content) ==
    [k \in DOMAIN files \cup {key} |-> IF k = key THEN content ELSE files[k]]

\* dataset[index] for the item data.  load: torch.load raises ("fail") or
\* not; trans: the transform raises ("fail") or not; save: torch.save
\* returns ("ok"), raises and leaves no file or the file as it was
\* ("fail"), or raises and leaves a file that cannot be loaded ("partial")
CacheRead(data, load, trans, save) ==
    LET key == CacheKey(data)
        exists == key \in DOMAIN cacheFiles
        loaded == exists /\ load = "ok" /\ cacheFiles[key] # <<>>
        raised == ~loaded /\ trans = "fail"
        stored == Saved(Transform(data), save_mcep)
    IN  /\ reads < MaxReads
        /\ reads' = reads + 1
        /\ ~exists => load = "ok"
        /\ loaded => trans = "ok"
        /\ loaded \/ raised => save = "ok"
        /\ cacheFiles' =
              IF loaded \/ raised \/ save = "fail" THEN cacheFiles
              ELSE IF save = "partial" THEN WithFile(cacheFiles, key, <<>>)
              ELSE WithFile(cacheFiles, key, <<stored>>)
        /\ lastRead' =
              [item |-> data, ok |-> ~raised,
               val |-> IF loaded
                         THEN <<Returns(cacheFiles[key][1], save_mcep)>>
                       ELSE IF raised THEN <<>>
                       ELSE <<Returns(stored, save_mcep)>>,
               loadable |-> loaded, transformed |-> ~loaded,
               load |-> IF exists THEN load ELSE "none",
               save |-> IF loaded \/ raised THEN "none" ELSE save]
        /\ UNCHANGED <<save_mcep, ctcVars, scopeVars, dataVars>>

\* ------------------------------------------------------------ specification
Hows == {"ok", "idx_fail", "bin_fail"}

Next ==
    \/ NewWriter
    \/ \E how \in Hows : Enter(how)
    \/ \E data \in Records, how \in Hows, caught \in BOOLEAN :
          \E k \in (IF how = "bin_fail" THEN PartialLens(data) ELSE {0}) :
             Write(data, how, k, caught)
    \/ \E how \in Hows : Exit(how)
    \/ OpenReaders
    \/ LenReaders
    \/ \E index \in Indexes : GetReaders(index)
    \/ CloseReaders
    \/ Return

Spec == Init /\ [][Next]_vars

\* the writer alone, with write() also called outside the with statement
NextWriter ==
    \/ NewWriter
    \/ \E how \in Hows : Enter(how)
    \/ \E data \in Records, how \in Hows, caught \in BOOLEAN :
          \E k \in (IF how = "bin_fail" THEN PartialLens(data) ELSE {0}) :
             Write(data, how, k, caught)
    \/ \E how \in Hows : Exit(how)
    \/ \E data \in Records : WriteOutside(data)

SpecWriter == Init /\ [][NextWriter]_vars

\* write sessions in which nothing raises, then several mapped readers
\* operating on the closed store in any order
NextPool ==
    \/ Enter("ok")
    \/ \E data \in Records : Write(data, "ok", 0, TRUE)
    \/ Exit("ok")
    \/ \E j \in 1 .. MaxReaders : PoolOpen(j)
    \/ \E j \in 1 .. MaxReaders : PoolLen(j)
    \/ \E j \in 1 .. MaxReaders, index \in Indexes : PoolGet(j, index)
    \/ \E j \in 1 .. MaxReaders : PoolClose(j)
    \/ PoolReturn

SpecPool == Init /\ [][NextPool]_vars

\* an IndexDataDataset over two streams, for every choice of their stores and
\* of the arguments given for them
InitComposite ==
    /\ InitStore
    /\ entries \in [Streams -> Entries]
    /\ nodups \in BOOLEAN
    \* with no dups argument the dup of an entry stands for nothing
    /\ nodups => \A s \in Streams : entries[s].dup = MaxDup
    /\ comp = NoComp /\ cout = NoOut
    /\ InitMore

NextComposite ==
    \/ CompInit
    \/ CompLen
    \/ \E index \in 0 .. MaxWrites : CompGet(index)
    \/ CompClose
    \/ CompReturn

SpecComposite == InitComposite /\ [][NextComposite]_vars

\* the sequences over S of the lengths lo .. hi
SeqsOf(S, lo, hi) == UNION { [1 .. n -> S] : n \in lo .. hi }

\* ctc_best_path called on every logits matrix of 1 .. MaxFrames frames and
\* every text of up to MaxLabels labels
InitCTC ==
    /\ InitData
    /\ logits \in SeqsOf(LogitRows, 1, MaxFrames)
    /\ labels \in SeqsOf(Labels, 0, MaxLabels)
    /\ cands = FirstCands(logits, labels)
    /\ frame = 1
    /\ ctcOut = <<>>
    /\ InitScope /\ InitCache

NextCTC == CtcFrame \/ CtcReturn

SpecCTC == InitCTC /\ [][NextCTC]_vars

\* nested with variable_scope(...) blocks with get_variable and set_variable
\* called inside and outside them
NextScope ==
    \/ \E name \in ScopeNames : ScopeEnter(name)
    \/ ScopeExit
    \/ \E name \in VarNames, value \in VarValues : SetVariable(name, value)
    \/ \E name \in VarNames : GetVariable(name)

SpecScope == Init /\ [][NextScope]_vars

\* item reads of an EncodedCacheDataset, with or without save_mcep, over a
\* cache directory that is empty at first
InitCacheReads ==
    /\ InitData /\ NoCtc /\ InitScope
    /\ save_mcep \in BOOLEAN /\ cacheFiles = <<>>
    /\ reads = 0 /\ lastRead = NoRead

NextCache ==
    \E data \in Items, load, trans \in {"ok", "fail"},
       save \in {"ok", "fail", "partial"} :
       CacheRead(data, load, trans, save)

SpecCache == InitCacheReads /\ [][NextCache]_vars

\* ------------------------------------------------------------------ claims
\* a write session of the current writer object has run and ended
SessionEnded == wpc = "done" /\ surfaced # "open"

\* the session ended with no write() and no close() raising
SessionClean == SessionEnded /\ firstFail = -1 /\ surfaced = "none"

\* C1: the records r_0..r_{n-1} written in one session that then closed are
\* what a freshly opened reader returns: get(i) = r_i for every i in [0, n),
\* from the eager reader and from the mapped reader alike.  Stated for the
\* first session of a writer object in which nothing raised.
C1_RoundTrip ==
    ( /\ SessionClean /\ enters = 1
      /\ outV1.op = "get" /\ rMM.st # "closed"
      /\ outV1.arg \in 0 .. (Len(written) - 1) )
    => /\ outV1 = OkVal(outV1.arg, written[outV1.arg + 1])
       /\ outMM = outV1

\* C2: after k write() calls that returned in one session the index file
\* holds k entries, entry i being L_0 + ... + L_i, and len(reader) after close
\* is k.  Stated for the sessions in which no write() raised.
C2_IndexIsPrefixSums ==
    /\ (wpc \in {"body", "done"} /\ surfaced # "open" /\ enters >= 1 /\ firstFail = -1)
          => idxFile = PrefixSums(written, 0)
    /\ (SessionClean /\ outV1.op = "len" /\ outV1.ok)
          => outV1.len = Len(written)

\* C3: get(index) with index < 0 fails on either reader variant; it never
\* returns bytes.  Stated for readers open over the store of a session in
\* which nothing raised.
C3_NegativeIndexFails ==
    (SessionClean /\ rV1.st = "open" /\ rMM.st = "open")
    => /\ (outV1.op = "get" /\ outV1.arg < 0) => ~outV1.ok
       /\ (outMM.op = "get" /\ outMM.arg < 0) => ~outMM.ok

\* C4: on a reader over an n-record store, get(index) with index >= n raises
\* IndexError on either variant, and get(0) and get(n-1) return when n >= 1
\* (on the mapped variant while it is open).
C4_UpperBound ==
    /\ (outV1.op = "get" /\ rV1.st = "open" /\ outV1.arg >= Len(rV1.indices))
          => (~outV1.ok /\ outV1.err = "IndexError")
    /\ (outMM.op = "get" /\ rMM.st # "none" /\ outMM.arg >= Len(rMM.indices))
          => (~outMM.ok /\ outMM.err = "IndexError")
    /\ ( /\ outV1.op = "get" /\ rV1.st = "open" /\ Len(rV1.indices) >= 1
         /\ outV1.arg \in {0, Len(rV1.indices) - 1} )
          => outV1.ok
    /\ ( /\ outMM.op = "get" /\ rMM.st = "open" /\ Len(rMM.indices) >= 1
         /\ outMM.arg \in {0, Len(rMM.indices) - 1} )
          => outMM.ok

\* C4's case: get(n) has been called on both variants over a store of n >= 1
\* records and failed on both
C4_Witness ==
    /\ rV1.st = "open" /\ rMM.st = "open"
    /\ Len(rV1.indices) >= 1
    /\ outV1.op = "get" /\ outV1.arg = Len(rV1.indices)
    /\ outMM.op = "get" /\ outMM.arg = Len(rMM.indices)
    /\ ~outV1.ok /\ ~outMM.ok

\* C5: at every point of a write session, also after a write() that raised,
\* the bytes of every entry of the index file are in the data file: no entry
\* points past the end of the data file.
C5_PayloadBeforeIndex ==
    (enters >= 1 /\ surfaced # "open")
    => \A i \in 1 .. Len(idxFile) : idxFile[i] <= Len(binFile)

\* C6: when the session's exit has returned or raised, both file handles are
\* closed.
C6_BothHandlesClosed ==
    SessionEnded => (idx_f = "closed" /\ bin_f = "closed")

\* C7: a write() that raises rolls nothing back and harms nothing: after the
\* session has closed, every record whose write() returned is what the reader
\* returns at its position.
C7_ReturnedWritesSurvive ==
    ( /\ SessionEnded /\ firstFail >= 0
      /\ outV1.op = "get" /\ outV1.arg \in 0 .. (Len(written) - 1) )
    => outV1 = OkVal(outV1.arg, written[outV1.arg + 1])

\* C8: when opening the session fails, no handle opened by the attempt stays
\* open.
C8_OpenFailureReleases ==
    (wpc = "done" /\ surfaced = "open") => (idx_f # "open" /\ bin_f # "open")

\* C9: when a write() raised out of the session body, the error the session
\* raises to its caller is that write error, also when a close fails.
C9_WriteErrorSurfaces ==
    (wpc = "done" /\ pending = "write") => surfaced = "write"

\* C10: over a store left by a session that closed, each operation has the
\* same outcome on both reader variants: both return, with equal length and
\* equal bytes, or both raise.
C10_ReadersAgree ==
    (wpc = "done" /\ surfaced = "none")
    => /\ outV1.ok = outMM.ok
       /\ outV1.len = outMM.len
       /\ outV1.val = outMM.val

\* C11: a record of no bytes written at position i is returned as an empty
\* range by get(i) on either reader variant, whatever the other records are.
\* Stated for the first session of a writer object in which nothing raised.
C11_EmptyRecordReadable ==
    ( /\ SessionClean /\ enters = 1
      /\ outV1.op = "get" /\ rMM.st # "closed"
      /\ outV1.arg \in 0 .. (Len(written) - 1)
      /\ written[outV1.arg + 1] = <<>> )
    => /\ outV1.ok /\ outV1.val = <<>>
       /\ outMM.ok /\ outMM.val = <<>>
       /\ idxFile[outV1.arg + 1] = (IF outV1.arg = 0 THEN 0 ELSE idxFile[outV1.arg])

\* C12: after a session that closed with writes r_0..r_{n-1} the data file is
\* r_0 ++ ... ++ r_{n-1} and its length is the last index entry (0 when the
\* index is empty).  Stated for the sessions in which nothing raised.
C12_DataIsConcatenation ==
    SessionClean
    => /\ binFile = Concat(written)
       /\ Len(binFile) = (IF idxFile = <<>> THEN 0 ELSE idxFile[Len(idxFile)])

\* C13: a session started on a prefix that an earlier session has written
\* discards what was there: after it closed, a fresh (eager) reader has
\* len = n and get(i) = r_i for the records of this session alone.
C13_SessionStartTruncates ==
    (SessionClean /\ sessions >= 2 /\ rV1.st = "open")
    => /\ outV1.op = "len" => outV1.len = Len(written)
       /\ (outV1.op = "get" /\ outV1.arg \in 0 .. (Len(written) - 1))
             => outV1 = OkVal(outV1.arg, written[outV1.arg + 1])

\* C15: close() on an open eager reader returns without error and leaves the
\* reader as it was.
C15_EagerCloseNoOp ==
    (outV1.op = "close" /\ rV1.st = "open") => outV1.ok

\* C16: once close() has been called on the mapped reader, its mapping and
\* its file handle are closed, and every get(index) issued afterwards fails,
\* whatever the index: none returns bytes.
C16_GetAfterCloseFails ==
    rMM.st = "closed"
    => /\ rMM.map = "closed" /\ rMM.file_obj = "closed"
       /\ outMM.op = "get" => (~outMM.ok /\ outMM.val = <<>>)

\* C16's case: the mapped reader over a store of at least one record has been
\* closed, and get(0), which returned bytes before the close, has been called
\* and failed on the closed mapping
C16_Witness ==
    /\ rMM.st = "closed" /\ Len(rMM.indices) >= 1
    /\ outMM.op = "get" /\ outMM.arg = 0
    /\ ~outMM.ok /\ outMM.err = "ValueError"

\* C17: when a reader's constructor raises, no usable reader results and the
\* attempt leaves no file handle and no mapping open.
C17_OpenFailureLeavesNothing ==
    (outMM.op = "open" /\ ~outMM.ok)
    => (rMM.st = "none" /\ rMM.file_obj # "open" /\ rMM.map # "open")

\* C14: a write() called while no session is open (before __enter__, or after
\* the with statement has ended) raises and leaves both files as they were.
C14_WriteOutsideSessionFails ==
    [][(wpc \in {"new", "done"} /\ calls' = calls + 1)
          => (wout' # "ok" /\ UNCHANGED fsVars)]_vars

\* C18: an operation on one of several readers of a closed store changes
\* neither file and no other reader, and a get on an open reader returns what
\* a reader opened alone on the store returns for that index, whatever the
\* other readers have done, closing included.
C18_ReadersIndependent ==
    [][(pout.who = 0 /\ pout'.who # 0)
          => /\ UNCHANGED fsVars
             /\ \A i \in 1 .. MaxReaders : i # pout'.who => pool'[i] = pool[i]
             /\ (pout'.out.op = "get" /\ pool[pout'.who].st = "open")
                   => pout'.out = MMGetItem(MMInit, pout'.out.arg)]_vars

\* C18's case: with reader 1 closed, reader 2 is still open on the store and
\* a get on it has returned the bytes of a record
C18_Witness ==
    /\ pool[1].st = "closed" /\ pool[2].st = "open"
    /\ pout.who = 2 /\ pout.out.op = "get"
    /\ pout.out.ok /\ pout.out.val # <<>>

\* the record of stream s that dataset[k] is to read
Want(s, k) == entries[s].recs[(k \div entries[s].dup) + 1]

\* C19: dataset[k] for k in [0, len(dataset)), while every stream has a
\* record k // dup[s] and its readers are open, is built from exactly record
\* k // dup[s] of each stream s: it is the list of these records decoded, in
\* stream order, and it fails only if one of these records cannot be decoded.
C19_ItemLookup ==
    ( /\ cout.op = "get" /\ comp.st = "open" /\ ~nodups
      /\ cout.arg \in 0 .. (Len(entries[1].recs) - 1)
      /\ \A s \in Streams :
            /\ cout.arg \div entries[s].dup < Len(entries[s].recs)
            /\ entries[s].kind = "path" => comp.readers[s].map = "open" )
    => IF \A s \in Streams :
             Decode(Want(s, cout.arg), entries[s].dtype, entries[s].shape).ok
       THEN /\ cout.ok
            /\ DOMAIN cout.val = Streams
            /\ \A s \in Streams :
                  cout.val[s] = Decode(Want(s, cout.arg), entries[s].dtype,
                                       entries[s].shape).v
       ELSE ~cout.ok

\* C19's case: the second stream has half the records of the first and a
\* duplication factor of 2, and dataset[1] has returned record 1 of the
\* first stream and record 0 of the second, which differ
C19_Witness ==
    /\ cout.op = "get" /\ cout.ok /\ cout.arg = 1 /\ ~nodups
    /\ Len(entries[1].recs) = 2 /\ entries[1].dup = 1
    /\ Len(entries[2].recs) = 1 /\ entries[2].dup = 2
    /\ entries[1].recs[1] # entries[1].recs[2]
    /\ cout.val[1] # cout.val[2]

\* C20: len(dataset) is the number of records of the first stream, whatever
\* the lengths and the duplication factors of the other streams.
C20_LengthOfStream0 ==
    cout.op = "len" => (cout.ok /\ cout.len = Len(entries[1].recs))

\* C20's case: len(dataset) has returned where the second stream has another
\* number of records than the first and a duplication factor that is not 1
C20_Witness ==
    /\ cout.op = "len" /\ cout.ok
    /\ Len(entries[2].recs) # Len(entries[1].recs)
    /\ entries[1].dup # 1 /\ entries[2].dup # 1

\* C21: an IndexDataDataset constructed with no dups argument has factor 1
\* for every stream: dataset[k], while every stream has a record k and its
\* readers are open, is the list of record k of every stream, decoded.
C21_DefaultDups ==
    (nodups /\ comp.st = "open")
    => /\ \A s \in Streams : comp.dups[s] = 1
       /\ ( /\ cout.op = "get"
            /\ \A s \in Streams :
                  /\ cout.arg < Len(entries[s].recs)
                  /\ Decode(entries[s].recs[cout.arg + 1], entries[s].dtype,
                            entries[s].shape).ok
                  /\ entries[s].kind = "path" => comp.readers[s].map = "open" )
          => /\ cout.ok
             /\ \A s \in Streams :
                   cout.val[s] = Decode(entries[s].recs[cout.arg + 1],
                                        entries[s].dtype, entries[s].shape).v

\* C21's case: with no dups argument, dataset[1] has returned record 1 of
\* both streams, where record 1 is not record 0 in either
C21_Witness ==
    /\ nodups /\ cout.op = "get" /\ cout.ok /\ cout.arg = 1
    /\ \A s \in Streams :
          /\ Len(entries[s].recs) = 2
          /\ entries[s].recs[1] # entries[s].recs[2]
          /\ cout.val[s] = Decode(entries[s].recs[2], entries[s].dtype,
                                  entries[s].shape).v

\* the record that dataset[k] fetches from stream s
Fetched(s, k) == entries[s].recs[(k \div comp.dups[s]) + 1]

\* every stream has the record that dataset[k] fetches, and can read it
AllFetched(k) ==
    \A s \in Streams :
       /\ k \div comp.dups[s] < Len(entries[s].recs)
       /\ entries[s].kind = "path" => comp.readers[s].map = "open"

\* the bytes of rec are a whole number of elements of dtype, and these a
\* whole number of rows of shape
Consistent(rec, dtype, shape) ==
    /\ Len(rec) % dtype = 0
    /\ (Len(rec) \div dtype) % shape = 0

\* C22: where dataset[k] fetches a record from every stream, it raises
\* ValueError and returns nothing if the length of some stream's record is
\* not a multiple of the element size or its element count does not fit the
\* shape, and it returns if every stream's record is consistent.
C22_DecodeError ==
    (cout.op = "get" /\ comp.st = "open" /\ cout.arg >= 0 /\ AllFetched(cout.arg))
    => IF \A s \in Streams :
             Consistent(Fetched(s, cout.arg), entries[s].dtype, entries[s].shape)
       THEN cout.ok /\ DOMAIN cout.val = Streams
       ELSE ~cout.ok /\ cout.err = "ValueError" /\ cout.val = <<>>

\* C22's case: dataset[k] has raised where the first stream's record is
\* consistent and the second stream's record is whole elements that do not
\* fill the rows of its shape
C22_Witness ==
    /\ cout.op = "get" /\ comp.st = "open" /\ AllFetched(cout.arg)
    /\ ~cout.ok /\ cout.err = "ValueError"
    /\ Consistent(Fetched(1, cout.arg), entries[1].dtype, entries[1].shape)
    /\ Len(Fetched(2, cout.arg)) % entries[2].dtype = 0
    /\ ~Consistent(Fetched(2, cout.arg), entries[2].dtype, entries[2].shape)

\* C23: when dataset.close() has returned or raised, close has been run on
\* every reader of the dataset: every mapped reader is closed, also those
\* after a reader whose close raised.
C23_CloseBestEffort ==
    (cout.op = "close" /\ comp.st = "open")
    => \A s \in Streams :
          entries[s].kind = "path" => comp.readers[s].st = "closed"

\* C25: when the construction of an IndexDataDataset has failed at the
\* reader of stream s, no reader that the constructor opened for an earlier
\* stream still holds an open mapping or an open file.
C25_ConstructionFailureCleansUp ==
    (cout.op = "init" /\ ~cout.ok)
    => \A s \in DOMAIN comp.readers :
          entries[s].kind = "path"
             => (comp.readers[s].map # "open" /\ comp.readers[s].file_obj # "open")

\* C24: in a session of a writer object that has been entered before, while
\* no write() of the session has raised, the index file is the prefix sums,
\* from 0, of the lengths of the records written in this session.
C24_ReuseRestartsTotal ==
    ( /\ wpc \in {"body", "done"} /\ surfaced # "open"
      /\ enters >= 2 /\ firstFail = -1 /\ faults = 0 )
    => idxFile = PrefixSums(written, 0)

\* the number of frames of the call
T == Len(logits)

\* ctc_best_path has returned
Returned == ctcOut # <<>>

\* C26: best_hist and best_path have one entry per frame; best_hist starts at
\* position 0 and goes on by 0, 1 or 2 per frame, by 2 only over a position
\* that holds a blank; best_path[t] is the expanded label at best_hist[t].
C26_AlignmentShape ==
    Returned
    => LET h == ctcOut[1].best_hist
           p == ctcOut[1].best_path
           lab == Expand(labels)
       IN  /\ Len(h) = T /\ Len(p) = T
           /\ h[1] = 0
           /\ \A t \in 2 .. T :
                 /\ h[t] - h[t - 1] \in {0, 1, 2}
                 /\ h[t] - h[t - 1] = 2 => lab[h[t - 1] + 2] = 0
           /\ \A t \in 1 .. T :
                 /\ h[t] \in 0 .. (Len(lab) - 1)
                 /\ p[t] = lab[h[t] + 1]

\* C26's case: a call with two labels has returned a path that moves one
\* position on and skips the blank between the labels
C26_Witness ==
    /\ Returned /\ Len(labels) = 2
    /\ LET h == ctcOut[1].best_hist
       IN  /\ \E t \in 2 .. T : h[t] = h[t - 1] + 1
           /\ \E t \in 2 .. T : h[t] = h[t - 1] + 2 /\ h[t] = 3

RECURSIVE Collapse(_, _)
\* CTC collapsing of a path: consecutive repeats merged, then blanks dropped;
\* last is the label before the path (0 at the start)
Collapse(path, last) ==
    IF path = <<>> THEN <<>>
    ELSE IF Head(path) = last \/ Head(path) = 0
         THEN Collapse(Tail(path), Head(path))
         ELSE <<Head(path)>> \o Collapse(Tail(path), Head(path))

\* C27: for a text of L labels and a matrix of at least L + 2 frames, the
\* returned best_path collapses to the text.
C27_PathCollapsesToText ==
    (Returned /\ T >= Len(labels) + 2)
    => Collapse(ctcOut[1].best_path, 0) = labels

RECURSIVE SumAlong(_, _)
\* the sum over the frames 1 .. t of logits[t, path[t]]
SumAlong(path, t) ==
    IF t = 0 THEN 0 ELSE SumAlong(path, t - 1) + Logit(logits[t], path[t])

\* the greatest of a non-empty set of numbers
Greatest(S) == CHOOSE x \in S : \A y \in S : y <= x

RECURSIVE BestSum(_, _)
\* the greatest sum of logits over the position sequences of t frames that
\* start at position 0, stay, move one position or move two over a blank,
\* and end at position q: {} if there is none, else the set of that sum
BestSum(t, q) ==
    LET lab == Expand(labels)
    IN  IF t = 1
        THEN (IF q = 0 THEN {Logit(logits[1], lab[1])} ELSE {})
        ELSE LET before ==
                    BestSum(t - 1, q)
                    \cup (IF q >= 1 THEN BestSum(t - 1, q - 1) ELSE {})
                    \cup (IF q >= 2 /\ lab[q] = 0 THEN BestSum(t - 1, q - 2) ELSE {})
             IN  IF before = {} THEN {}
                 ELSE {Greatest(before) + Logit(logits[t], lab[q + 1])}

\* C28: the returned logprob is the sum over the frames of
\* logits[t, best_path[t]], and no position sequence that obeys the
\* transitions and ends at the position where the returned one ends has a
\* greater sum.
C28_PathIsOptimal ==
    Returned
    => /\ ctcOut[1].logprob = SumAlong(ctcOut[1].best_path, T)
       /\ {ctcOut[1].logprob} = BestSum(T, ctcOut[1].best_hist[T])

RECURSIVE HistSum(_, _)
\* the sum over the frames 1 .. t of the logits of the labels at the
\* positions hist[t]
HistSum(hist, t) ==
    IF t = 0 THEN 0
    ELSE HistSum(hist, t - 1) + Logit(logits[t], Expand(labels)[hist[t] + 1])

\* C28's case: over four frames and one label, the call has returned the
\* positions 0, 1, 1, 2, whose sum is greater than that of the two other
\* sequences that end at position 2
C28_Witness ==
    /\ Returned /\ T = 4 /\ Len(labels) = 1
    /\ ctcOut[1].best_hist = <<0, 1, 1, 2>>
    /\ ctcOut[1].logprob > HistSum(<<0, 0, 1, 2>>, 4)
    /\ ctcOut[1].logprob > HistSum(<<0, 1, 2, 2>>, 4)

RECURSIVE Joined(_)
\* the names joined with '/'
Joined(names) ==
    IF names = <<>> THEN <<>>
    ELSE IF Len(names) = 1 THEN names[1]
    ELSE names[1] \o <<"/">> \o Joined(Tail(names))

RECURSIVE AfterLeadingEmpty(_)
\* the names without the empty ones at their start
AfterLeadingEmpty(names) ==
    IF names = <<>> THEN <<>>
    ELSE IF Head(names) = <<>> THEN AfterLeadingEmpty(Tail(names))
    ELSE names

\* C29 as stated: variable_space is the '/'-joined names of the open scopes,
\* outermost first, and empty when no scope is open; get_variable and
\* set_variable address the key '<that path>/<name>'.
C29_ScopePathIsJoinedNames ==
    /\ variable_space = Joined(OpenNames)
    /\ scopes = <<>> => variable_space = <<>>
    /\ scopeOut.op # "none"
          => scopeOut.key = VarKey(Joined(OpenNames), scopeOut.name)

\* C29 amended: variable_space is the '/'-joined names of the open scopes,
\* outermost first, leaving out the scopes with an empty name that come
\* before the first scope with a non-empty name; it is empty when no scope
\* is open; get_variable and set_variable address the key of that path, a
\* '/' and the name, and get_variable returns the value stored under it.
C29_ScopePathAmended ==
    /\ variable_space = Joined(AfterLeadingEmpty(OpenNames))
    /\ scopes = <<>> => variable_space = <<>>
    /\ \A i \in 1 .. Len(scopes) :
          scopes[i].parent = Joined(AfterLeadingEmpty(SubSeq(OpenNames, 1, i - 1)))
    /\ scopeOut.op # "none"
          => /\ scopeOut.key =
                   VarKey(Joined(AfterLeadingEmpty(OpenNames)), scopeOut.name)
             /\ scopeOut.ok = (scopeOut.key \in DOMAIN trainable_variables)
             /\ scopeOut.ok => scopeOut.val = trainable_variables[scopeOut.key]

\* C29's case: a scope with an empty name and, inside it, a scope named 'a'
\* are open, and get_variable has returned the value stored under 'a/w'
C29_Witness ==
    /\ Len(scopes) = 2 /\ scopes[1].name = <<>> /\ scopes[2].name = <<"a">>
    /\ scopeOut.op = "get" /\ scopeOut.ok
    /\ scopeOut.key = <<"a", "/", "w">>

\* what a read of the item returns when nothing is cached
Fresh(data) == Returns(Saved(Transform(data), save_mcep), save_mcep)

\* C30: a read runs the transform only when no cache file of the item's key
\* could be loaded; a read whose load failed goes on to the transform; a
\* read whose save failed returns all the same; and the value a read
\* returns is the one the item gives freshly computed, whether it came from
\* the cache or not.
C30_CacheIsTransparent ==
    lastRead.item # <<>>
    => /\ lastRead.transformed = ~lastRead.loadable
       /\ lastRead.load = "fail" => lastRead.transformed
       /\ lastRead.save # "none" => lastRead.ok
       /\ lastRead.ok => lastRead.val = <<Fresh(lastRead.item)>>

\* the parts of C30 other than the value returned
C30_Probe_Fallbacks ==
    lastRead.item # <<>>
    => /\ lastRead.transformed = ~lastRead.loadable
       /\ lastRead.load = "fail" => lastRead.transformed
       /\ lastRead.save # "none" => lastRead.ok

\* the value returned, for items whose hashed string no other item shares
C30_Probe_NoCollision ==
    /\ lastRead.item # <<>> /\ lastRead.ok
    /\ \A d \in Items : CacheKey(d) = CacheKey(lastRead.item) => d = lastRead.item
    => lastRead.val = <<Fresh(lastRead.item)>>
====
